---- MODULE Spec2Model ----
(***************************************************************************)
(* calendarize: a festival schedule chosen by a CP-SAT model.              *)
(*                                                                         *)
(* calendarize.py builds the sorted list of events, a constraint model     *)
(* over one boolean per event (appearances) and one transit integer per    *)
(* event (transits), solves it once maximising attendance, then fixes the  *)
(* attendance found and solves it again minimising the commute.            *)
(* film_calendar.py is the earlier script: the same events (screenings)    *)
(* and pairwise constraints, no transits, one solve maximising attendance. *)
(*                                                                         *)
(* Times are whole minutes.  A begin is given as a day and a minute of     *)
(* that day (the "YYYY-MM-DD HH:MM" string of the source); parsing turns   *)
(* it into an absolute minute count, and date() takes the day back out.    *)
(***************************************************************************)
EXTENDS Integers, Sequences, FiniteSets, TLC

VARIABLES
    script,       \* which of the two scripts runs
    events,       \* the sorted list of Event objects          (calendarize.py:67-120)
    pc,           \* position of the script
    error,        \* the exception that ended the script, or "none"
    model,        \* the CpModel: its constraints and its objective
    appearances,  \* solver.Value(appearances[i]) of the last solution
    transits,     \* solver.Value(transits[i]) of the last solution
    attendance,   \* solver.Value(attendance)
    commute,      \* solver.Value(commute)
    printed,      \* the schedule lines of the last solution callback
    previous      \* the results of the earlier runs of the script on these events

vars == <<script, events, pc, error, model, appearances, transits, attendance, commute,
          printed, previous>>

(***************************************************************************)
(* Bounds of the inputs.                                                   *)
(***************************************************************************)
MaxEvents == 3
MaxMalformed == 2
MaxFreeTransits == 2
LongDays == 3
LongPerDay == 81
MaxLeftOut == 1

(***************************************************************************)
(* Program constants.                                                      *)
(***************************************************************************)
\* The table with one pair of entries raised (VUE-FLH, 30 to 60).
transit_times_detour ==
    [STA |-> [CAM |-> 20, EVR |-> 15, FLH |-> 15, VUE |-> 15],
     CAM |-> [EVR |-> 20, FLH |-> 10, STA |-> 20, VUE |-> 30],
     EVR |-> [CAM |-> 20, FLH |-> 20, STA |-> 15, VUE |-> 10],
     FLH |-> [CAM |-> 10, EVR |-> 20, STA |-> 15, VUE |-> 60],
     VUE |-> [CAM |-> 30, EVR |-> 10, FLH |-> 60, STA |-> 15]]

transit_times ==
    [STA |-> [CAM |-> 20, EVR |-> 15, FLH |-> 15, VUE |-> 15],
     CAM |-> [EVR |-> 20, FLH |-> 10, STA |-> 20, VUE |-> 30],
     EVR |-> [CAM |-> 20, FLH |-> 20, STA |-> 15, VUE |-> 10],
     FLH |-> [CAM |-> 10, EVR |-> 20, STA |-> 15, VUE |-> 30],
     VUE |-> [CAM |-> 30, EVR |-> 10, FLH |-> 30, STA |-> 15]]

SameVenueMinutes == 5

TransitMax == 60

CommuteMax == 3600

MinutesPerDay == 24 * 60

(***************************************************************************)
(* Event: construction, minutes_from, eta_from.                            *)
(***************************************************************************)
\* timeparser.parse: the absolute minute of a day and a minute of the day.
parse(begin) == begin.day * MinutesPerDay + begin.minute

\* datetime.date(): the day an absolute minute falls on.
date(t) == t \div MinutesPerDay

Event(title, begin, running_time, venue) ==
    [title |-> title,
     begin |-> parse(begin),
     running_time |-> running_time,
     end |-> parse(begin) + running_time,
     venue |-> venue]

\* The listed events the catalogs are taken from, in the order of the listing:
\* showings of three titles at two venues over one evening and the next
\* morning, some of one title, some too close in time to attend both.
Programme ==
    <<Event("C", [day |-> 1, minute |-> 90], 90, "VUE"),
      Event("B", [day |-> 0, minute |-> 1320], 90, "CAM"),
      Event("A", [day |-> 0, minute |-> 1200], 90, "VUE"),
      Event("B", [day |-> 0, minute |-> 1290], 90, "VUE"),
      Event("C", [day |-> 0, minute |-> 1415], 90, "CAM"),
      Event("B", [day |-> 0, minute |-> 1320], 90, "VUE"),
      Event("C", [day |-> 0, minute |-> 1415], 90, "VUE")>>

\* Listed events with a running time of zero or less, or at a venue the
\* transit table does not know, next to one that is neither.
MalformedProgramme ==
    <<Event("A", [day |-> 0, minute |-> 1320], 0, "VUE"),
      Event("B", [day |-> 0, minute |-> 1200], 0 - 30, "VUE"),
      Event("C", [day |-> 0, minute |-> 1320], 90, "ZZZ"),
      Event("D", [day |-> 0, minute |-> 1200], 90, "VUE")>>

\* transit_times[prev.venue][self.venue] raises KeyError on a missing key.
minutes_from_raises(self, prev) ==
    /\ self.venue # prev.venue
    /\ \/ prev.venue \notin DOMAIN transit_times
       \/ self.venue \notin DOMAIN transit_times[prev.venue]

minutes_from(self, prev) ==
    IF self.venue = prev.venue
    THEN SameVenueMinutes
    ELSE transit_times[prev.venue][self.venue]

eta_from(self, prev) == prev.end + minutes_from(self, prev)

(***************************************************************************)
(* sorted(..., key=lambda f: f.begin): a stable sort by begin.             *)
(***************************************************************************)
\* One step of the sort: e goes after the events that begin no later.
RECURSIVE InsertByBegin(_, _)
InsertByBegin(s, e) ==
    IF s = <<>> THEN <<e>>
    ELSE IF s[Len(s)].begin <= e.begin THEN Append(s, e)
    ELSE Append(InsertByBegin(SubSeq(s, 1, Len(s) - 1), e), s[Len(s)])

\* sorted(l, key=lambda f: f.begin)
RECURSIVE sorted(_)
sorted(l) ==
    IF l = <<>> THEN <<>>
    ELSE InsertByBegin(sorted(SubSeq(l, 1, Len(l) - 1)), l[Len(l)])

\* The lists of at most maxLen events of the listing p, in its order.
RECURSIVE SubLists(_, _)
SubLists(p, maxLen) ==
    IF p = <<>> \/ maxLen = 0 THEN {<<>>}
    ELSE LET rest == SubSeq(p, 2, Len(p))
         IN  SubLists(rest, maxLen)
             \cup {<<p[1]>> \o l : l \in SubLists(rest, maxLen - 1)}

\* The sorted lists of at most maxLen events of S whose first event is one of
\* firsts: what sorted() returns for the lists of events of S, in every order.
RECURSIVE SortedLists(_, _, _)
SortedLists(firsts, S, maxLen) ==
    IF maxLen = 0 THEN {<<>>}
    ELSE IF maxLen = 1 THEN {<<>>} \cup {<<e>> : e \in firsts}
    ELSE LET shorter == SortedLists(firsts, S, maxLen - 1)
         IN  shorter \cup
             {l \in {InsertByBegin(c, e) :
                        c \in {x \in shorter : Len(x) = maxLen - 1}, e \in S} :
                 l[1] \in firsts}

EventsOf(titles, venues, begins, runs) ==
    {Event(t, b, r, v) : t \in titles, b \in begins, r \in runs, v \in venues}

Catalogs ==
    {sorted(l) : l \in SubLists(Programme, MaxEvents)}
    \cup {sorted(l) : l \in SubLists(MalformedProgramme, MaxMalformed)}

\* Catalogs over every venue of the table: events one minute long on one
\* date, each with a title of its own.  After a first event at minute 0 a
\* second one is exactly in time at minute 1 + 5k and a third one after it at
\* minute 2 + 5k, the table's entries being multiples of 5.
TableVenues == DOMAIN transit_times
TableBegins ==
    {[day |-> 0, minute |-> 0]}
    \cup {[day |-> 0, minute |-> 1 + 5 * k] : k \in 1..4}
    \cup {[day |-> 0, minute |-> 2 + 5 * k] : k \in 2..6}
TableRunningTimes == {1}
TitleList == <<"A", "B", "C", "D", "E">>

Retitled(s) == [k \in 1..Len(s) |-> [s[k] EXCEPT !.title = TitleList[k]]]

TableEvents == EventsOf({"A"}, TableVenues, TableBegins, TableRunningTimes)

\* The first event begins at minute 0: the constraints compare differences of
\* times only.
TableCatalogs ==
    {Retitled(c) :
        c \in SortedLists({e \in TableEvents : e.begin = 0}, TableEvents,
                          MaxEvents)}

\* A listing that fills the commute: on each of LongDays dates, LongPerDay
\* events of one minute every 16 minutes, at VUE and STA in turn (15 minutes
\* apart), 3 * 80 * 15 = 3600 minutes of transit in all; then one more event
\* at CAM, 30 minutes after the last.  Every title is different and every
\* event is in time after every earlier one.
LongEvent(k) ==
    LET day == (k - 1) \div LongPerDay
        i == (k - 1) % LongPerDay
    IN  Event("T" \o ToString(k), [day |-> day, minute |-> 16 * i], 1,
              IF i % 2 = 0 THEN "VUE" ELSE "STA")

LongProgramme ==
    [k \in 1..(LongDays * LongPerDay) |-> LongEvent(k)]
    \o <<Event("Last",
               [day |-> LongDays - 1, minute |-> 16 * (LongPerDay - 1) + 31],
               1, "CAM")>>

\* The first date of the listing; the listing without its last event; the
\* whole listing.  The listing is in the order of the begins, the order
\* sorted() leaves it in.
LongCatalogs ==
    {SubSeq(LongProgramme, 1, k) :
        k \in {LongPerDay, Len(LongProgramme) - 1, Len(LongProgramme)}}

n == Len(events)

(***************************************************************************)
(* The CpModel built from the events (calendarize.py:123-158).             *)
(* Python's range(n) is 1..n here.                                         *)
(***************************************************************************)
NoValue == 0 - 1

EmptyModel ==
    [size |-> 0, transitVars |-> 0, boolAnds |-> {}, transitEqs |-> <<>>,
     attendanceEq |-> NoValue, objective |-> "none"]

\* The comparison written with > instead of >=.
no_overlaps_strict(i, j) == events[j].begin > eta_from(events[j], events[i])

\* events[j].begin >= events[j].eta_from(events[i])
no_overlaps(i, j) == events[j].begin >= eta_from(events[j], events[i])

\* The title comparison left out.
no_duplicates_dropped(i, j) == TRUE

\* events[i].title != events[j].title
no_duplicates(i, j) == events[i].title # events[j].title

\* range(i+1, j): the events between i and j
no_events_between(i, j) == (i + 1)..(j - 1)

\* model.AddBoolAnd(no_overlaps + no_duplicates).OnlyEnforceIf(pair_selected)
BoolAnds ==
    {[i |-> i, j |-> j,
      no_overlaps |-> no_overlaps(i, j),
      no_duplicates |-> no_duplicates(i, j)] :
        <<i, j>> \in {p \in (1..n) \X (1..n) : p[1] < p[2]}}

\* The date comparison left out.
same_day_dropped(i, j) == TRUE

\* if events[i].begin.date() == events[j].begin.date()
same_day(i, j) == date(events[i].begin) = date(events[j].begin)

\* Every transit_time taken for the one within a venue.
TransitEqsSameVenue ==
    {[i |-> i, j |-> j,
      between |-> no_events_between(i, j),
      transit_time |-> SameVenueMinutes] :
        <<i, j>> \in {p \in (1..n) \X (1..n) : p[1] < p[2] /\ same_day(p[1], p[2])}}

\* model.Add(transits[j] == transit_time)
\*      .OnlyEnforceIf(pair_selected + no_events_between)
TransitEqs ==
    {[i |-> i, j |-> j,
      between |-> no_events_between(i, j),
      transit_time |-> minutes_from(events[j], events[i])] :
        <<i, j>> \in {p \in (1..n) \X (1..n) : p[1] < p[2] /\ same_day(p[1], p[2])}}

\* The equalities of the model, kept by the transits[j] each one is on.
OnTransits(eqs, k) == [j \in 1..k |-> {e \in eqs : e.j = j}]

Goal1Objective == "Maximize attendance"

Goal2Objective == "Minimize commute"

\* The first pair, if any, whose eta_from raises while the loop runs.
BuildRaises ==
    \E i \in 1..n, j \in 1..n : i < j /\ minutes_from_raises(events[j], events[i])

(***************************************************************************)
(* CpSolver: what a solution of the model is.                              *)
(***************************************************************************)
\* s[lo] + ... + s[hi]
RECURSIVE SumRange(_, _, _)
SumRange(s, lo, hi) ==
    IF lo > hi THEN 0
    ELSE IF lo = hi THEN s[lo]
    ELSE LET mid == (lo + hi) \div 2
         IN  SumRange(s, lo, mid) + SumRange(s, mid + 1, hi)

SumSeq(s) == SumRange(s, 1, Len(s))

MinOf(S) == CHOOSE x \in S : \A y \in S : x <= y
MaxOf(S) == CHOOSE x \in S : \A y \in S : x >= y

\* OnlyEnforceIf(pair_selected + no_events_between) holds under app
Enforced(eq, app) ==
    /\ app[eq.i] = 1
    /\ app[eq.j] = 1
    /\ \A b \in eq.between : app[b] = 0

\* The model's constraints on the values app (appearances) and tr (transits);
\* attendance and commute are their sums.  film_calendar.py declares no
\* transits and no commute: tr is empty there.
Satisfies(m, app, tr) ==
    /\ \A c \in m.boolAnds :
          (app[c.i] = 1 /\ app[c.j] = 1) => (c.no_overlaps /\ c.no_duplicates)
    /\ \A j \in DOMAIN m.transitEqs :
          \A e \in m.transitEqs[j] : Enforced(e, app) => tr[j] = e.transit_time
    /\ Len(tr) = m.transitVars
    /\ \A j \in 1..m.transitVars : tr[j] \in 0..TransitMax
    /\ SumSeq(tr) \in 0..CommuteMax
    /\ SumSeq(app) \in 0..m.size
    /\ m.attendanceEq # NoValue => SumSeq(app) = m.attendanceEq

\* The values transits[j] can take next to app: the one value the enforced
\* equalities on transits[j] ask for, when it lies in 0..TransitMax; none when
\* they ask for two values; every value of 0..TransitMax where no equality
\* is enforced.
TransitValues(m, app, j) ==
    LET asked == {e.transit_time : e \in {x \in m.transitEqs[j] :
                                             Enforced(x, app)}}
    IN  IF asked = {} THEN 0..TransitMax
        ELSE {v \in asked : asked = {v} /\ v \in 0..TransitMax}

\* The lists of values of transits[1..k] next to app.
RECURSIVE TransitChoices(_, _, _)
TransitChoices(m, app, k) ==
    IF k = 0 THEN {<<>>}
    ELSE {Append(t, v) : t \in TransitChoices(m, app, k - 1),
                         v \in TransitValues(m, app, k)}

\* The least value each transits[j] can take next to app.
LeastTransits(m, app) ==
    [j \in 1..m.transitVars |-> MinOf(TransitValues(m, app, j))]

\* The lists of values of transits[lo..hi] next to app whose sum is at most
\* most, when each transits[j] can take a value: the first half leaves room
\* for the least values of the second.
RECURSIVE ChoicesWithin(_, _, _, _, _)
ChoicesWithin(m, app, lo, hi, most) ==
    IF lo > hi THEN {<<>>}
    ELSE IF lo = hi
    THEN {<<v>> : v \in {x \in TransitValues(m, app, lo) : x <= most}}
    ELSE LET mid == (lo + hi) \div 2
             room == most - SumRange(LeastTransits(m, app), mid + 1, hi)
         IN  UNION {{l \o r :
                        r \in ChoicesWithin(m, app, mid + 1, hi,
                                            most - SumSeq(l))} :
                    l \in ChoicesWithin(m, app, lo, mid, room)}

\* Those of TransitChoices(m, app, k) whose sum is at most most.
TransitChoicesWithin(m, app, k, most) == ChoicesWithin(m, app, 1, k, most)

Solution(app, tr) ==
    [appearances |-> app, transits |-> tr,
     attendance |-> SumSeq(app), commute |-> SumSeq(tr)]

Solutions(m) ==
    {Solution(p[1], p[2]) :
        p \in {q \in UNION {{a} \X TransitChoices(m, a, m.transitVars) :
                              a \in [1..m.size -> {0, 1}]} :
                  Satisfies(m, q[1], q[2])}}

\* Whether some values of transits make app a solution: the least ones do,
\* their sum being the least commute.
Extends(m, app) ==
    /\ \A j \in 1..m.transitVars : TransitValues(m, app, j) # {}
    /\ Satisfies(m, app, LeastTransits(m, app))

Extending(m) == {a \in [1..m.size -> {0, 1}] : Extends(m, a)}

\* The sets of d of the numbers lo..hi.
RECURSIVE SubsetsOf(_, _, _)
SubsetsOf(lo, hi, d) ==
    IF d < 0 \/ d > hi - lo + 1 THEN {}
    ELSE IF d = 0 THEN {{}}
    ELSE IF lo = hi THEN {{lo}}
    ELSE LET mid == (lo + hi) \div 2
         IN  UNION {{A \cup B : A \in SubsetsOf(lo, mid, e),
                                B \in SubsetsOf(mid + 1, hi, d - e)} :
                    e \in 0..d}

\* The sets of d of the numbers 1..k.
Subsets(k, d) == SubsetsOf(1, k, d)

\* The selection of k events that leaves out those of D.
AllBut(k, D) == [i \in 1..k |-> IF i \in D THEN 0 ELSE 1]

\* The selections of m that leave out d events and have a solution.
ExtendingLeaving(m, d) ==
    {a \in {AllBut(m.size, D) : D \in Subsets(m.size, d)} : Extends(m, a)}

\* The least number of events, d or more, a solution of m leaves out.
RECURSIVE FewestLeftOut(_, _)
FewestLeftOut(m, d) ==
    IF d >= m.size \/ ExtendingLeaving(m, d) # {} THEN d
    ELSE FewestLeftOut(m, d + 1)

\* solver.Solve runs to optimality: the solutions of the greatest attendance
\* under Goal 1, of the least commute under Goal 2 (among those of the
\* attendance Goal 2 has fixed).
Optimal(m) ==
    IF m.objective = Goal1Objective
    THEN UNION {{Solution(a, tr) :
                    tr \in TransitChoicesWithin(m, a, m.transitVars, CommuteMax)} :
                a \in ExtendingLeaving(m, FewestLeftOut(m, 0))}
    ELSE LET ext == IF m.attendanceEq = NoValue THEN Extending(m)
                    ELSE ExtendingLeaving(m, m.size - m.attendanceEq)
             least == {SumSeq(LeastTransits(m, a)) : a \in ext}
         IN  IF least = {} THEN {}
             ELSE UNION {{Solution(a, tr) :
                             tr \in TransitChoicesWithin(m, a, m.transitVars,
                                                         MinOf(least))} :
                         a \in {x \in ext :
                                   SumSeq(LeastTransits(m, x)) = MinOf(least)}}

(***************************************************************************)
(* The catalogs a run is checked on.                                       *)
(***************************************************************************)
\* Events that can be attended together.
CanAttend(S) ==
    \A i \in S, j \in S : i < j => (no_overlaps(i, j) /\ no_duplicates(i, j))

\* The events of S whose transit an equality fixes.
FixedTransits(S) ==
    {j \in S : \E i \in S : /\ i < j
                             /\ same_day(i, j)
                             /\ \A b \in no_events_between(i, j) : b \notin S}

\* Every largest set of events that can be attended together leaves at most
\* MaxFreeTransits of the transits open to any value of 0..TransitMax.
WithinFreeTransits ==
    IF BuildRaises THEN TRUE
    ELSE LET sets == {S \in SUBSET (1..n) : CanAttend(S)}
             most == MaxOf({Cardinality(S) : S \in sets})
         IN  \A S \in sets :
                 Cardinality(S) = most
                     => n - Cardinality(FixedTransits(S)) <= MaxFreeTransits

(***************************************************************************)
(* SolutionHandler.on_solution_callback: the printed schedule.             *)
(***************************************************************************)
\* prev: the last selected event before i, 0 when there is none
PrevSelected(app, i) ==
    LET S == {k \in 1..(i - 1) : app[k] = 1}
    IN  IF S = {} THEN 0 ELSE MaxOf(S)

ScheduleLine(app, i) ==
    LET prev == PrevSelected(app, i)
    IN  IF prev # 0 /\ date(events[prev].begin) = date(events[i].begin)
        THEN LET minutes_between == events[i].begin - events[prev].end
                 transit_between == minutes_from(events[i], events[prev])
                 break_between == minutes_between - transit_between
             IN  [event |-> i, annotated |-> TRUE,
                  transit_none |-> events[prev].venue = events[i].venue,
                  transit_between |-> transit_between,
                  downtime_none |-> break_between <= 5,
                  break_between |-> break_between]
        ELSE [event |-> i, annotated |-> FALSE,
              transit_none |-> TRUE, transit_between |-> 0,
              downtime_none |-> TRUE, break_between |-> 0]

\* The lines of the selected events among lo..hi, in order.
RECURSIVE ScheduleRange(_, _, _)
ScheduleRange(app, lo, hi) ==
    IF lo > hi THEN <<>>
    ELSE IF lo = hi
    THEN IF app[lo] = 1 THEN <<ScheduleLine(app, lo)>> ELSE <<>>
    ELSE LET mid == (lo + hi) \div 2
         IN  ScheduleRange(app, lo, mid) \o ScheduleRange(app, mid + 1, hi)

Schedule(app, k) == ScheduleRange(app, 1, k)

(***************************************************************************)
(* The script.                                                             *)
(***************************************************************************)
Scripts == {"calendarize", "film_calendar"}

Init ==
    /\ script \in Scripts
    /\ events \in Catalogs
    /\ WithinFreeTransits
    /\ pc = "build"
    /\ error = "none"
    /\ model = EmptyModel
    /\ appearances = <<>>
    /\ transits = <<>>
    /\ attendance = 0
    /\ commute = 0
    /\ printed = <<>>
    /\ previous = <<>>

\* calendarize.py:121-158, film_calendar.py:120-146: the variables, the
\* pairwise loop, the goal of maximum attendance.
BuildModel ==
    /\ pc = "build"
    /\ IF BuildRaises
       THEN /\ pc' = "failed"
            /\ error' = "KeyError"
            /\ UNCHANGED model
       ELSE /\ pc' = "solve1"
            /\ model' = [size |-> n,
                         transitVars |-> IF script = "calendarize" THEN n ELSE 0,
                         boolAnds |-> BoolAnds,
                         transitEqs |-> IF script = "calendarize"
                                        THEN OnTransits(TransitEqs, n)
                                        ELSE <<>>,
                         attendanceEq |-> NoValue,
                         objective |-> Goal1Objective]
            /\ UNCHANGED error
    /\ UNCHANGED <<script, events, appearances, transits, attendance, commute,
                   printed, previous>>

\* calendarize.py:186 and 193, film_calendar.py:172:
\* solver.Solve(model, SolutionHandler()).  The solver ends on an optimal
\* solution, which the last callback has printed.  film_calendar.py ends after
\* its one solve.
Solve ==
    /\ pc \in {"solve1", "solve2"}
    /\ \E s \in Optimal(model) :
          /\ appearances' = s.appearances
          /\ transits' = s.transits
          /\ attendance' = s.attendance
          /\ commute' = s.commute
          /\ printed' = Schedule(s.appearances, model.size)
    /\ pc' = IF pc = "solve1" /\ script = "calendarize" THEN "goal2" ELSE "done"
    /\ UNCHANGED <<script, events, error, model, previous>>

\* calendarize.py:190-191: Goal 2.
MinimizeCommute ==
    /\ pc = "goal2"
    /\ model' = [model EXCEPT !.attendanceEq = attendance,
                              !.objective = Goal2Objective]
    /\ pc' = "solve2"
    /\ UNCHANGED <<script, events, error, appearances, transits, attendance,
                   commute, printed, previous>>

\* The script is run a second time on the same events; the result of the
\* first run is kept to compare.
RunAgain ==
    /\ pc = "done"
    /\ previous = <<>>
    /\ previous' = <<[appearances |-> appearances, attendance |-> attendance,
                      commute |-> commute]>>
    /\ pc' = "build"
    /\ model' = EmptyModel
    /\ appearances' = <<>>
    /\ transits' = <<>>
    /\ attendance' = 0
    /\ commute' = 0
    /\ printed' = <<>>
    /\ UNCHANGED <<script, events, error>>

Next ==
    \/ BuildModel
    \/ Solve
    \/ MinimizeCommute
    \/ RunAgain

Spec == Init /\ [][Next]_vars

\* The same script on the catalogs over the whole transit table in which
\* each event is in time after the one before.
InitTable ==
    /\ script = "calendarize"
    /\ events \in TableCatalogs
    /\ \A k \in 1..(n - 1) : no_overlaps(k, k + 1)
    /\ pc = "build"
    /\ error = "none"
    /\ model = EmptyModel
    /\ appearances = <<>>
    /\ transits = <<>>
    /\ attendance = 0
    /\ commute = 0
    /\ printed = <<>>
    /\ previous = <<>>

SpecTable == InitTable /\ [][Next]_vars

\* The same script on the catalogs of the long listing.
InitLong ==
    /\ script = "calendarize"
    /\ events \in LongCatalogs
    /\ pc = "build"
    /\ error = "none"
    /\ model = EmptyModel
    /\ appearances = <<>>
    /\ transits = <<>>
    /\ attendance = 0
    /\ commute = 0
    /\ printed = <<>>
    /\ previous = <<>>

SpecLong == InitLong /\ [][Next]_vars

(***************************************************************************)
(* What the specification says of a schedule, stated on the events alone.  *)
(***************************************************************************)
\* transit_minutes(p, q) of the specification, for events i and j
TransitMinutes(i, j) ==
    IF events[i].venue = events[j].venue
    THEN 5
    ELSE transit_times[events[i].venue][events[j].venue]

\* q.start >= p.end + transit_minutes(p, q)
InTime(i, j) == events[j].begin >= events[i].end + TransitMinutes(i, j)

\* pair_feasible(p, q) of the specification
PairFeasible(i, j) == InTime(i, j) /\ events[i].title # events[j].title

\* A set of events that satisfies every pairwise hard constraint.
FeasibleSelection(S) == \A i \in S, j \in S : i < j => PairFeasible(i, j)

FeasibleSelections == {S \in SUBSET (1..n) : FeasibleSelection(S)}

\* The events the last solution selects.
Selected == {i \in 1..Len(appearances) : appearances[i] = 1}

\* The selected event before j in S, 0 when j is the first.
Before(S, j) ==
    LET E == {i \in S : i < j}
    IN  IF E = {} THEN 0 ELSE MaxOf(E)

SameDate(i, j) == events[i].begin \div (24 * 60) = events[j].begin \div (24 * 60)

\* The transit of event j in selection S: from the selected event before it,
\* when that one starts on the same date.
TransitInto(S, j) ==
    IF j \in S /\ Before(S, j) # 0 /\ SameDate(Before(S, j), j)
    THEN TransitMinutes(Before(S, j), j)
    ELSE 0

RECURSIVE TotalTransitUpTo(_, _)
TotalTransitUpTo(S, k) ==
    IF k = 0 THEN 0 ELSE TotalTransitUpTo(S, k - 1) + TransitInto(S, k)

\* The sum of transit minutes over the same-day consecutive pairs of S.
TotalTransit(S) == TotalTransitUpTo(S, n)

MaxAttendance == MaxOf({Cardinality(S) : S \in FeasibleSelections})

\* Every venue is a key of the transit table.
KnownVenues == \A i \in 1..n : events[i].venue \in DOMAIN transit_times

\* A solve has returned; the run has ended; calendarize.py has ended.
Returned == pc \in {"goal2", "solve2", "done"}
Ended == pc = "done"
Final == pc = "done" /\ script = "calendarize"

(***************************************************************************)
(* C1: in the assignment the optimizer returns (either script, after       *)
(* either pass), every two selected events i < j are pair-feasible: j      *)
(* begins no earlier than i's end plus the transit between them, and       *)
(* their titles differ.                                                    *)
(***************************************************************************)
Thm_C1 ==
    Returned => \A i \in Selected, j \in Selected : i < j => PairFeasible(i, j)

\* A final result with two events selected at different venues, from a
\* catalog that also holds a same-title pair and a pair too close in time.
Wit_C1 ==
    /\ Final
    /\ \E i \in Selected, j \in Selected :
          i < j /\ events[i].venue # events[j].venue
    /\ \E i \in 1..n, j \in 1..n :
          i < j /\ KnownVenues /\ events[i].title = events[j].title
    /\ \E i \in 1..n, j \in 1..n :
          i < j /\ KnownVenues /\ ~InTime(i, j)

(***************************************************************************)
(* C2: the attendance of the final result (of either script) is the        *)
(* maximum: no set of events that satisfies the pairwise constraints is    *)
(* larger.                                                                 *)
(***************************************************************************)
\* The sets of events larger than the final result.
LargerSelections ==
    UNION {{(1..n) \ D : D \in Subsets(n, d)} : d \in 0..(n - attendance - 1)}

\* C2: the final attendance is that of the result and no larger set of
\* events satisfies the pairwise constraints.
CE_C2 ==
    Ended => /\ attendance = Cardinality(Selected)
             /\ \A S \in LargerSelections : ~FeasibleSelection(S)

(***************************************************************************)
(* C3: among the feasible selections of maximum attendance, the final      *)
(* result has the least total transit over its same-day consecutive pairs. *)
(***************************************************************************)
Thm_C3 ==
    Final => /\ Cardinality(Selected) = MaxAttendance
             /\ \A S \in FeasibleSelections :
                   Cardinality(S) = MaxAttendance
                       => TotalTransit(Selected) <= TotalTransit(S)

\* A final result where another selection of maximum attendance has a larger
\* total transit.
Wit_C3 ==
    /\ Final
    /\ attendance >= 2
    /\ \E S \in FeasibleSelections :
          /\ Cardinality(S) = MaxAttendance
          /\ TotalTransit(S) > TotalTransit(Selected)

(***************************************************************************)
(* C4: Scenario A.  As claimed: three events at one venue with distinct    *)
(* titles, each beginning at or after the end of the one before, are all   *)
(* selected, with a transit of 5 between consecutive ones.                 *)
(***************************************************************************)
ScenarioA(gap) ==
    /\ n = 3
    /\ \A i \in 1..3, j \in 1..3 :
          /\ events[i].venue = events[j].venue
          /\ i # j => events[i].title # events[j].title
    /\ \A k \in 1..2 : events[k + 1].begin >= events[k].end + gap

\* C4 as claimed (gaps of 0 minutes or more).
CE_C4 ==
    (Final /\ ScenarioA(0))
        => /\ Selected = 1..3
           /\ transits[2] = 5
           /\ transits[3] = 5

\* C4 as amended: when each event begins at least 5 minutes after the end of
\* the one before, all three are selected, and the transit of the second and
\* of the third is 5 when it begins on the date of the one before, 0 otherwise.
Thm_C4 ==
    (Final /\ ScenarioA(5))
        => /\ Selected = 1..3
           /\ \A k \in 1..2 :
                 transits[k + 1] = IF SameDate(k, k + 1) THEN 5 ELSE 0

\* Scenario A with gaps of at least 5 minutes, solved, on one date.
Wit_C4 ==
    /\ Final
    /\ ScenarioA(5)
    /\ SameDate(1, 3)

(***************************************************************************)
(* C5: a catalog holding an event of zero or negative duration, or an      *)
(* event whose venue is not in the transit table, fails with               *)
(* MalformedEventError before any model is built.                          *)
(***************************************************************************)
Malformed ==
    \E i \in 1..n : \/ events[i].running_time <= 0
                    \/ events[i].venue \notin DOMAIN transit_times

\* C5: a malformed catalog ends in MalformedEventError and builds no model.
CE_C5 ==
    Malformed => /\ pc \in {"build", "failed"}
                 /\ pc = "failed" => error = "MalformedEventError"

(***************************************************************************)
(* C6: a second run on the same events returns the result of the first:    *)
(* the same selected set, attendance and total transit.                    *)
(***************************************************************************)
CE_C6 ==
    (Final /\ previous # <<>>)
        => previous[1] = [appearances |-> appearances,
                          attendance |-> attendance,
                          commute |-> commute]

(***************************************************************************)
(* C7: when no two events of the catalog conflict, the final result        *)
(* selects every event and its total transit is the sum of the transits    *)
(* between neighbours of the sorted list that begin on the same date; the  *)
(* empty catalog ends without error with attendance 0, transit 0 and an    *)
(* empty schedule.                                                         *)
(***************************************************************************)
NeighbourTransit(k) ==
    SumRange([j \in 1..k |-> IF j > 1 /\ SameDate(j - 1, j)
                             THEN TransitMinutes(j - 1, j) ELSE 0], 1, k)

\* C7: a catalog without conflicts is attended whole, with the transit of
\* its same-date neighbours.
CE_C7 ==
    (Final /\ FeasibleSelection(1..n))
        => /\ attendance = n
           /\ Selected = 1..n
           /\ commute = NeighbourTransit(n)
           /\ Len(printed) = n
           /\ error = "none"

(***************************************************************************)
(* C8: in the final result the commute is the sum of the transits of the   *)
(* same-day consecutive selected pairs; transits[j] is the transit from    *)
(* the selected event before j when that one begins on j's date, and 0     *)
(* for an unselected event and for the first selected event of a date.     *)
(***************************************************************************)
Thm_C8 ==
    Final => /\ commute = SumSeq(transits)
             /\ commute = TotalTransit(Selected)
             /\ \A j \in 1..n : transits[j] = TransitInto(Selected, j)

\* A final result with a same-day pair and a cross-day pair.
Wit_C8 ==
    /\ Final
    /\ \E i \in Selected, j \in Selected : Before(Selected, j) = i /\ SameDate(i, j)
    /\ \E i \in Selected, j \in Selected : Before(Selected, j) = i /\ ~SameDate(i, j)

(***************************************************************************)
(* C9: the transit equalities neither loosen nor tighten feasibility: a    *)
(* selection extends to a solution of the whole model, with transits in    *)
(* 0..60 and the commute in 0..3600, exactly when it satisfies the         *)
(* pairwise constraints.  Stated of the selections that leave out at most  *)
(* MaxLeftOut events.                                                      *)
(***************************************************************************)
CE_C9 ==
    (pc = "solve1" /\ script = "calendarize")
        => \A d \in 0..MaxLeftOut :
              \A D \in Subsets(n, d) :
                  Extends(model, AllBut(n, D)) <=> FeasibleSelection((1..n) \ D)

(***************************************************************************)
(* C10: with the shipped table, for events of positive duration and        *)
(* distinct titles, a set whose consecutive events are in time has every   *)
(* pair in time.                                                           *)
(***************************************************************************)
ConsecutiveInTime(S) ==
    \A j \in S : Before(S, j) # 0 => InTime(Before(S, j), j)

\* C10: consecutive events in time implies every pair in time.
Thm_C10 ==
    \A S \in SUBSET (1..n) :
        (/\ \A i \in S : events[i].running_time > 0
         /\ \A i \in S, j \in S : i # j => events[i].title # events[j].title
         /\ ConsecutiveInTime(S))
            => \A i \in S, j \in S : i < j => InTime(i, j)

\* Three events at three venues, consecutive ones just in time, solved with
\* all three attended.
Wit_C10 ==
    /\ Final
    /\ n = 3
    /\ Selected = 1..3
    /\ Cardinality({events[i].venue : i \in 1..3}) = 3
    /\ events[2].begin = events[1].end + TransitMinutes(1, 2)
    /\ events[3].begin = events[2].end + TransitMinutes(2, 3)

====
